---------------------------- MODULE Spec2Model ----------------------------
(***************************************************************************)
(* A model of chatwith (src/src/lib.rs, src/src/main.rs): the entry store, *)
(* the transcript codec, the streaming response decoder and the session    *)
(* orchestrator.  Strings are TLA+ strings; Len, SubSeq and \o act on them *)
(* character by character, as Rust's str methods act on the bytes of the   *)
(* ASCII texts used here.                                                  *)
(***************************************************************************)
EXTENDS Integers, Sequences, FiniteSets, TLC

VARIABLES
    content,        \* escaping harness: the bytes of one saved message content
    passes,         \* escaping harness: number of save-time transforms applied
    codecConv,      \* codec harness: the messages of the Conversation in memory
    codecFile,      \* codec harness: the transcript file
    codecSaved,     \* codec harness: the messages last handed to update_conversation
    codecPrev,      \* codec harness: the file before the last write
    codecPhase,     \* codec harness: "built", "saved" or "loaded"
    parseLines,     \* parse_conversation: the lines read so far
    parseRole,      \* parse_conversation: current_role
    parseMsgs,      \* parse_conversation: conversation.messages
    cfgFile,        \* the file chatwith.cfg
    convFiles,      \* the transcript file <model>.conv of each model
    pc,             \* "shell": no process runs; "transfer": inside transfer.perform()
    runs,           \* number of invocations started
    query,          \* the Query of the current or last invocation
    store,          \* run: the entries in memory (the Vec config of run)
    conversation,   \* chat: the Conversation in memory, [model, messages]
    request,        \* chat: the request body posted to the server
    response,       \* send_message: the accumulated answer
    is_response,    \* send_message: FALSE inside a thinking block
    fragments,      \* the buffers handed to the write callback in this transfer
    terminal,       \* the writes to standard output of each callback, in order
    prevDecoder,    \* [response, is_response] before the last callback
    stdout,         \* what the command printed on standard output
    stderr,         \* what the invocation printed on standard error, in order
    exit,           \* exit status of the last invocation, "none" before or during one
    outcome,        \* how the last invocation went
    atStart,        \* [cfgFile, convFiles] when the invocation started
    loaded,         \* chat: the messages returned by get_conversation
    io              \* chat: how the truncation and the write of the transcript went

escVars == <<content, passes>>
parseVars == <<parseLines, parseRole, parseMsgs>>
codecVars == <<codecConv, codecFile, codecSaved, codecPrev, codecPhase,
               parseLines, parseRole, parseMsgs>>
fileVars == <<cfgFile, convFiles>>
decoderVars == <<response, is_response, fragments, terminal, prevDecoder>>
chatVars == <<conversation, request, loaded>>
progVars == <<cfgFile, convFiles, pc, runs, query, store, conversation,
              request, response, is_response, fragments, terminal, prevDecoder,
              stdout, stderr, exit, outcome, atStart, loaded, io>>

vars == <<content, passes, codecConv, codecFile, codecSaved, codecPrev,
          codecPhase, parseLines, parseRole, parseMsgs, cfgFile, convFiles,
          pc, runs, query, store, conversation, request, response, is_response, fragments, terminal, prevDecoder,
          stdout, stderr, exit, outcome, atStart, loaded, io>>

(***************************************************************************)
(* Rust str primitives used by the program.                                *)
(***************************************************************************)

\* The i-th character of s, as a one-character string.
Char(s, i) == SubSeq(s, i, i)

\* s[i..] starts with pattern p.
StartsWithAt(s, p, i) ==
    /\ i + Len(p) - 1 <= Len(s)
    /\ SubSeq(s, i, i + Len(p) - 1) = p

\* str::contains
Contains(s, p) == \E i \in 1..(Len(s) + 1) : StartsWithAt(s, p, i)

RECURSIVE ReplaceFrom(_, _, _, _)
\* str::replace from position i on: leftmost, non-overlapping matches.
ReplaceFrom(s, from, to, i) ==
    IF i > Len(s) THEN ""
    ELSE IF StartsWithAt(s, from, i)
         THEN to \o ReplaceFrom(s, from, to, i + Len(from))
         ELSE Char(s, i) \o ReplaceFrom(s, from, to, i + 1)

\* str::replace
Replace(s, from, to) == ReplaceFrom(s, from, to, 1)

RECURSIVE MatchesFrom(_, _, _)
\* str::matches(p).count() from position i on: leftmost, non-overlapping.
MatchesFrom(s, p, i) ==
    IF i > Len(s) THEN 0
    ELSE IF StartsWithAt(s, p, i)
         THEN 1 + MatchesFrom(s, p, i + Len(p))
         ELSE MatchesFrom(s, p, i + 1)

\* str::matches(p).count()
MatchCount(s, p) == MatchesFrom(s, p, 1)

RECURSIVE Join(_, _)
\* [String]::join(sep)
Join(strs, sep) ==
    IF Len(strs) = 0 THEN ""
    ELSE IF Len(strs) = 1 THEN strs[1]
    ELSE strs[1] \o sep \o Join(Tail(strs), sep)

RECURSIVE Strs(_, _)
\* All strings over the characters of alphabet with at most n characters.
Strs(alphabet, n) ==
    IF n = 0 THEN {""}
    ELSE LET shorter == Strs(alphabet, n - 1)
         IN  shorter \cup {s \o c : s \in shorter, c \in alphabet}

(***************************************************************************)
(* Save-time escaping (update_conversation, lib.rs 452-455).               *)
(***************************************************************************)

\* The escaped apostrophe: backslash, backslash, quote (r#"\\'"#).
EscapedQuote == "\\\\'"

\* Escaping without the preceding normalisation.
SanitizeNoNormalize(s) == Replace(s, "'", EscapedQuote)

\* .replace(r#"\\'"#, r#"'"#).replace(r#"'"#, r#"\\'"#)
Sanitize(s) == Replace(Replace(s, EscapedQuote, "'"), "'", EscapedQuote)

(***************************************************************************)
(* Transcript codec (lib.rs 324-360, 378-462).                             *)
(***************************************************************************)

\* A file with its text, and a path that does not exist (try_exists() is
\* false).
File(text) == [exists |-> TRUE, text |-> text]
NoFile == [exists |-> FALSE, text |-> ""]

\* enum Role with its Display names (lib.rs 346-360).
RoleUser == "user"
RoleAssistant == "assistant"
RoleNone == "none"

\* struct Message
Message(role, text) == [role |-> role, content |-> text]

\* impl Display for Message: "<{}>\n{}\n</{}>\n"
MessageToString(m) ==
    "<" \o m.role \o ">\n" \o m.content \o "\n</" \o m.role \o ">\n"

RECURSIVE LinesFrom(_, _, _)
\* str::lines from position i on, cur being the line read so far: a line ends
\* at "\n", a "\r" before that "\n" is dropped, and a last line that is not
\* ended by "\n" is kept unless it is empty.
LinesFrom(text, i, cur) ==
    IF i > Len(text) THEN (IF cur = "" THEN <<>> ELSE <<cur>>)
    ELSE IF Char(text, i) = "\n"
         THEN LET n == Len(cur)
                  line == IF n > 0 /\ Char(cur, n) = "\r"
                          THEN SubSeq(cur, 1, n - 1) ELSE cur
              IN  <<line>> \o LinesFrom(text, i + 1, "")
         ELSE LinesFrom(text, i + 1, cur \o Char(text, i))

\* str::lines().collect()
Lines(text) == LinesFrom(text, 1, "")

\* A fold that joins the lines of a message with a line break.
FoldLineJoinsWithNewline(messages, current_role, line) ==
    IF current_role = RoleNone THEN messages
    ELSE LET n == Len(messages)
         IN  IF n > 0 /\ messages[n].role = current_role
             THEN [messages EXCEPT ![n].content = @ \o "\n" \o line]
             ELSE Append(messages, Message(current_role, line))

\* A fold that starts a message for every line.
FoldLineAlwaysStarts(messages, current_role, line) ==
    IF current_role = RoleNone THEN messages
    ELSE Append(messages, Message(current_role, line))

\* The loop body of parse_conversation for a line that is no tag
\* (lib.rs 410-434).
FoldLine(messages, current_role, line) ==
    IF current_role = RoleNone THEN messages
    ELSE LET started == IF Len(messages) = 0
                        THEN <<Message(current_role, "")>>
                        ELSE messages
             n == Len(started)
         IN  IF started[n].role = current_role
             THEN [started EXCEPT ![n].content = @ \o line]
             ELSE Append(started, Message(current_role, line))

RECURSIVE ParseFrom(_, _, _, _)
\* The loop of parse_conversation from line i on (lib.rs 403-436).
ParseFrom(lines, i, current_role, messages) ==
    IF i > Len(lines) THEN messages
    ELSE LET line == lines[i]
         IN  IF line = "<user>"
             THEN ParseFrom(lines, i + 1, RoleUser, messages)
             ELSE IF line = "</user>"
             THEN ParseFrom(lines, i + 1, RoleNone, messages)
             ELSE IF line = "<assistant>"
             THEN ParseFrom(lines, i + 1, RoleAssistant, messages)
             ELSE IF line = "</assistant>"
             THEN ParseFrom(lines, i + 1, RoleNone, messages)
             ELSE ParseFrom(lines, i + 1, current_role,
                            FoldLine(messages, current_role, line))

\* parse_conversation: the messages of the Conversation it returns.
parse_conversation(lines) == ParseFrom(lines, 1, RoleNone, <<>>)

RECURSIVE WriteFrom(_, _)
\* The loop of update_conversation from message i on (lib.rs 450-458): the
\* bytes written for each message, one after the other.
WriteFrom(messages, i) ==
    IF i > Len(messages) THEN ""
    ELSE Sanitize(MessageToString(messages[i])) \o WriteFrom(messages, i + 1)

\* update_conversation: the file after a write that succeeds.
update_conversation(messages) == File(WriteFrom(messages, 1))

\* get_conversation: the messages loaded from a transcript file
\* (lib.rs 384-394).
get_conversation(file) ==
    IF file.exists THEN parse_conversation(Lines(file.text)) ELSE <<>>

(***************************************************************************)
(* Streaming decoder: the write callback of send_message (lib.rs 257-299). *)
(***************************************************************************)

\* The markers of a thinking block (lib.rs 275, 285).
ThinkStart == "<think>"
ThinkEnd == "</think>"

\* The style codes printed around a thinking block (lib.rs 276, 286); the
\* escape character is written here as the four characters \x1B.
AnsiDim == "\\x1B[90m"
AnsiNormal == "\\x1B[39m"

\* A buffer handed to the write callback: a JSON object whose message.content
\* is the string text, a JSON object without message.content, or bytes that
\* are no JSON document.
ContentChunk(text) == [kind |-> "content", content |-> text]
NoContentChunk == [kind |-> "nocontent", content |-> ""]
MalformedChunk == [kind |-> "malformed", content |-> ""]

\* serde_json's rendering of one character of a string.
JsonEscapeChar(c) ==
    CASE c = "\"" -> "\\\""
      [] c = "\\" -> "\\\\"
      [] c = "\n" -> "\\n"
      [] c = "\r" -> "\\r"
      [] c = "\t" -> "\\t"
      [] OTHER -> c

RECURSIVE JsonEscapeFrom(_, _)
JsonEscapeFrom(text, i) ==
    IF i > Len(text) THEN ""
    ELSE JsonEscapeChar(Char(text, i)) \o JsonEscapeFrom(text, i + 1)

\* Value::to_string of a JSON string: quoted and escaped (lib.rs 261).
JsonToString(text) == "\"" \o JsonEscapeFrom(text, 1) \o "\""

\* content.to_string().replace("\"", "") (lib.rs 261)
Stringified(text) == Replace(JsonToString(text), "\"", "")

\* lib.rs 270
CountNewlines(output) == MatchCount(output, "\\n")

\* The sanitisation without the removal of the backslashes.
SanitizeOutputKeepsBackslashes(output) ==
    IF CountNewlines(output) > 0 THEN Replace(output, "\\n", "") ELSE output

\* lib.rs 271-273
SanitizeOutput(output) ==
    IF CountNewlines(output) > 0
    THEN Replace(Replace(output, "\\n", ""), "\\", "")
    ELSE output

RECURSIVE Repeat(_, _)
\* n copies of the string text, as a sequence.
Repeat(text, n) == IF n = 0 THEN <<>> ELSE <<text>> \o Repeat(text, n - 1)

\* The loop of lib.rs 290-295: it pushes n newlines when responding.
PushNewlines(resp, responding, n) ==
    IF responding THEN resp \o Join(Repeat("\n", n), "") ELSE resp

\* The callback on a buffer with message.content (lib.rs 260-298): the
\* decoder state after it and what it printed.
OnContent(resp, responding, text) ==
    LET stringified == Stringified(text)
        newlines == CountNewlines(stringified)
        output == SanitizeOutput(stringified)
        starts == Contains(output, ThinkStart)
        ends == Contains(output, ThinkEnd)
        responding1 == IF starts THEN FALSE ELSE responding
        resp1 == IF responding1 THEN resp \o output ELSE resp
        responding2 == IF ends THEN TRUE ELSE responding1
    IN  [response |-> PushNewlines(resp1, responding2, newlines),
         is_response |-> responding2,
         printed |-> (IF starts THEN <<AnsiDim>> ELSE <<>>)
                        \o <<output>>
                        \o (IF ends THEN <<AnsiNormal>> ELSE <<>>)
                        \o Repeat("\n", newlines)]

(***************************************************************************)
(* Request body (lib.rs 310-343).                                          *)
(***************************************************************************)

\* Message::to_json_string
MessageToJson(m) ==
    "{\"role\":\"" \o m.role \o "\",\"content\":\"" \o m.content \o "\"}"

RECURSIVE MessagesToJson(_, _)
\* The loop of Conversation::to_json_string: each message and a comma.
MessagesToJson(messages, i) ==
    IF i > Len(messages) THEN ""
    ELSE MessageToJson(messages[i]) \o "," \o MessagesToJson(messages, i + 1)

\* Conversation::to_json_string; pop() drops the last character written.
ConversationToJson(conv) ==
    LET head == "{\"model\":\"" \o conv.model \o "\",\"messages\":["
                    \o MessagesToJson(conv.messages, 1)
    IN  SubSeq(head, 1, Len(head) - 1) \o "],\"stream\":true}"

(***************************************************************************)
(* Entry store (lib.rs 17, 75-210).                                        *)
(***************************************************************************)

\* const VALID_COMMANDS
VALID_COMMANDS == {"help", "entry", "remove", "show", "list"}

\* struct Entry
Entry(name, model, options) ==
    [name |-> name, model |-> model, options |-> options]

\* impl Display for Entry: "{} {} {}" with the options joined by spaces.
EntryToString(e) == e.name \o " " \o e.model \o " " \o Join(e.options, " ")

\* char::is_whitespace for the characters that occur here.
IsWhitespace(c) == c \in {" ", "\t", "\n", "\r", "\f"}

RECURSIVE SplitWhitespaceFrom(_, _, _)
\* str::split_whitespace from position i on, cur being the token read so far.
SplitWhitespaceFrom(line, i, cur) ==
    IF i > Len(line) THEN (IF cur = "" THEN <<>> ELSE <<cur>>)
    ELSE IF IsWhitespace(Char(line, i))
         THEN (IF cur = "" THEN <<>> ELSE <<cur>>)
                  \o SplitWhitespaceFrom(line, i + 1, "")
         ELSE SplitWhitespaceFrom(line, i + 1, cur \o Char(line, i))

\* str::split_whitespace().collect()
SplitWhitespace(line) == SplitWhitespaceFrom(line, 1, "")

RECURSIVE ParseConfigSkipsBadLines(_, _, _)
\* A parse_config that leaves out the lines it cannot use and goes on.
ParseConfigSkipsBadLines(lines, i, config) ==
    IF i > Len(lines) THEN [ok |-> TRUE, config |-> config, error |-> ""]
    ELSE LET tokens == SplitWhitespace(lines[i])
         IN  IF Len(tokens) < 2 \/ tokens[1] \in VALID_COMMANDS
             THEN ParseConfigSkipsBadLines(lines, i + 1, config)
             ELSE ParseConfigSkipsBadLines(lines, i + 1,
                      Append(config, Entry(tokens[1], tokens[2],
                                           SubSeq(tokens, 3, Len(tokens)))))

RECURSIVE ParseConfigFrom(_, _, _)
\* The loop of parse_config from line i on (lib.rs 91-115): the first bad
\* line ends it with an error.
ParseConfigFrom(lines, i, config) ==
    IF i > Len(lines) THEN [ok |-> TRUE, config |-> config, error |-> ""]
    ELSE LET tokens == SplitWhitespace(lines[i])
         IN  IF Len(tokens) = 0 THEN ParseConfigFrom(lines, i + 1, config)
             ELSE IF Len(tokens) = 1
             THEN [ok |-> FALSE, config |-> <<>>,
                   error |-> "Invalid entry in config. Make sure to specify a model. Line:\n"
                                 \o lines[i]]
             ELSE IF tokens[1] \in VALID_COMMANDS
             THEN [ok |-> FALSE, config |-> <<>>,
                   error |-> "Invalid entry in config. Make sure the entry is not named after a valid command. Line:\n"
                                 \o lines[i]]
             ELSE ParseConfigFrom(lines, i + 1,
                      Append(config, Entry(tokens[1], tokens[2],
                                           SubSeq(tokens, 3, Len(tokens)))))

\* parse_config
parse_config(lines) == ParseConfigFrom(lines, 1, <<>>)

\* run, lib.rs 44-53: the config is empty when the file does not exist.
LoadConfig(file) ==
    IF file.exists THEN parse_config(Lines(file.text))
    ELSE [ok |-> TRUE, config |-> <<>>, error |-> ""]

RECURSIVE ConfigText(_, _)
\* The loop of update_config from entry i on: one line per entry.
ConfigText(config, i) ==
    IF i > Len(config) THEN ""
    ELSE EntryToString(config[i]) \o "\n" \o ConfigText(config, i + 1)

\* update_config: the file after the write.
update_config(config) == File(ConfigText(config, 1))

\* The number of entries of config named name.
CountNamed(config, name) ==
    Cardinality({i \in 1..Len(config) : config[i].name = name})

\* An entry that updates only the first entry of the name.
EntryUpdatesFirst(args, config) ==
    IF Len(args) >= 2
    THEN LET new_entry == Entry(args[1], args[2], SubSeq(args, 3, Len(args)))
             hits == {i \in 1..Len(config) : config[i].name = new_entry.name}
         IN  IF hits # {}
             THEN [ok |-> TRUE,
                   config |-> [i \in 1..Len(config) |->
                                  IF i \in hits /\ \A j \in hits : i <= j
                                  THEN new_entry ELSE config[i]],
                   stdout |-> <<"Updated 1 entry.">>,
                   error |-> ""]
             ELSE [ok |-> TRUE,
                   config |-> Append(config, new_entry),
                   stdout |-> <<"Entry successfully added.">>,
                   error |-> ""]
    ELSE [ok |-> FALSE, config |-> config, stdout |-> <<>>,
          error |-> "Incomplete entry given. Please provide at least a name and a model."]

\* entry (lib.rs 136-172): the config after it and what it printed, or the
\* error it returns.
entry(args, config) ==
    IF Len(args) >= 2
    THEN LET new_entry == Entry(args[1], args[2], SubSeq(args, 3, Len(args)))
             count == CountNamed(config, new_entry.name)
         IN  IF count > 0
             THEN [ok |-> TRUE,
                   config |-> [i \in 1..Len(config) |->
                                  IF config[i].name = new_entry.name
                                  THEN [config[i] EXCEPT
                                           !.model = new_entry.model,
                                           !.options = new_entry.options]
                                  ELSE config[i]],
                   stdout |-> IF count > 1
                              THEN <<"Updated " \o ToString(count) \o " entries.">>
                              ELSE <<"Updated 1 entry.">>,
                   error |-> ""]
             ELSE [ok |-> TRUE,
                   config |-> Append(config, new_entry),
                   stdout |-> <<"Entry successfully added.">>,
                   error |-> ""]
    ELSE [ok |-> FALSE, config |-> config, stdout |-> <<>>,
          error |-> "Incomplete entry given. Please provide at least a name and a model."]

\* Vec::retain(|entry| entry.name != name)
Retain(config, name) == SelectSeq(config, LAMBDA e : e.name # name)

RECURSIVE RemoveFrom(_, _, _)
\* The loop of remove from argument i on (lib.rs 177-181).
RemoveFrom(args, i, config) ==
    IF i > Len(args) THEN config
    ELSE RemoveFrom(args, i + 1, Retain(config, args[i]))

\* A remove that looks at its first argument only.
RemoveFirstNameOnly(args, config) ==
    LET new_config == IF Len(args) > 0 THEN Retain(config, args[1]) ELSE config
    IN  [config |-> new_config,
         stdout |-> <<"Removed " \o ToString(Len(config) - Len(new_config))
                          \o " entries from config file.">>]

\* remove (lib.rs 174-189): the new config and what it printed.
remove(args, config) ==
    LET new_config == RemoveFrom(args, 1, config)
    IN  [config |-> new_config,
         stdout |-> <<"Removed " \o ToString(Len(config) - Len(new_config))
                          \o " entries from config file.">>]

\* The lines show and list print for the entries (lib.rs 193-197, 204-206).
EntryLines(config) == [i \in 1..Len(config) |-> EntryToString(config[i])]

\* show (lib.rs 191-199)
show(args, config) ==
    EntryLines(SelectSeq(config,
        LAMBDA e : \E i \in 1..Len(args) : args[i] = e.name))

\* list (lib.rs 201-210)
list(config) ==
    IF Len(config) > 0
    THEN <<ToString(Len(config)) \o " entries found in config file:">>
             \o EntryLines(config)
    ELSE <<"No entries found in config file.">>

\* help (lib.rs 132-134)
help == <<"Valid commands: help, add, update, remove, show, list, <entry_name>">>

(***************************************************************************)
(* Query (lib.rs 19-41).                                                   *)
(***************************************************************************)

UpperLetters == "ABCDEFGHIJKLMNOPQRSTUVWXYZ"
LowerLetters == "abcdefghijklmnopqrstuvwxyz"

\* char::to_lowercase for ASCII.
LowerChar(c) ==
    IF \E i \in 1..Len(UpperLetters) : Char(UpperLetters, i) = c
    THEN Char(LowerLetters,
              CHOOSE i \in 1..Len(UpperLetters) : Char(UpperLetters, i) = c)
    ELSE c

RECURSIVE ToLowercaseFrom(_, _)
ToLowercaseFrom(text, i) ==
    IF i > Len(text) THEN ""
    ELSE LowerChar(Char(text, i)) \o ToLowercaseFrom(text, i + 1)

\* str::to_lowercase
ToLowercase(text) == ToLowercaseFrom(text, 1)

\* Query::build on the words after the program name: no word is "help".
QueryBuild(words) ==
    IF Len(words) = 0 THEN [command |-> "help", args |-> <<>>]
    ELSE [command |-> ToLowercase(words[1]), args |-> Tail(words)]

(***************************************************************************)
(* Each specification below drives one part of the program and leaves the  *)
(* variables of the other parts at these values.                           *)
(***************************************************************************)

EscIdle == content = "" /\ passes = 0

\* parse_conversation has read no line (lib.rs 398-402).
ParseIdle ==
    /\ parseLines = <<>>
    /\ parseRole = RoleNone
    /\ parseMsgs = <<>>

CodecIdle ==
    /\ ParseIdle
    /\ codecConv = <<>>
    /\ codecFile = NoFile
    /\ codecSaved = <<>>
    /\ codecPrev = NoFile
    /\ codecPhase = "idle"

\* The models named by the entries used here.
ModelPool == {"m1", "m2"}

\* The in-memory state of a process that has not entered chat.
FreshConversation == [model |-> "", messages |-> <<>>]
FreshDecoder == [response |-> "", is_response |-> TRUE]
NoIo == [trunc |-> "none", write |-> "none"]

\* No process has run yet: the given config file and no transcript.
ProgStart(cfg) ==
    /\ cfgFile = cfg
    /\ convFiles = [m \in ModelPool |-> NoFile]
    /\ pc = "shell"
    /\ runs = 0
    /\ query = [command |-> "help", args |-> <<>>]
    /\ store = <<>>
    /\ conversation = FreshConversation
    /\ request = ""
    /\ response = ""
    /\ is_response = TRUE
    /\ fragments = <<>>
    /\ terminal = <<>>
    /\ prevDecoder = FreshDecoder
    /\ stdout = <<>>
    /\ stderr = <<>>
    /\ exit = -1
    /\ outcome = "none"
    /\ atStart = [cfgFile |-> cfg, convFiles |-> [m \in ModelPool |-> NoFile]]
    /\ loaded = <<>>
    /\ io = NoIo

ProgIdle == ProgStart(NoFile)

(***************************************************************************)
(* Codec harness: a conversation as chat builds one (User and Assistant    *)
(* messages in turn) is written, read back and written again.              *)
(***************************************************************************)

MaxMsgs == 2

\* Message contents: empty, plain, with an apostrophe, with an escaped
\* apostrophe, equal to a tag line, and with an embedded line break.
SingleLineContents == {"", "hi", "it's", "it\\\\'s", "</user>"}
CodecContents == SingleLineContents \cup {"a\nb"}

IsSingleLine(text) == ~Contains(text, "\n")

\* The role of the i-th message of a conversation built by chat from an
\* empty history.
TurnRole(i) == IF i % 2 = 1 THEN RoleUser ELSE RoleAssistant

Conversations ==
    UNION {{[i \in 1..n |-> Message(TurnRole(i), texts[i])] :
               texts \in [1..n -> CodecContents]} : n \in 0..MaxMsgs}

InitCodec ==
    /\ codecConv \in Conversations
    /\ codecFile = NoFile
    /\ codecSaved = <<>>
    /\ codecPrev = NoFile
    /\ codecPhase = "built"
    /\ ParseIdle
    /\ EscIdle
    /\ ProgIdle

\* update_conversation on the conversation in memory.
CodecSave ==
    /\ codecPhase \in {"built", "loaded"}
    /\ codecFile' = update_conversation(codecConv)
    /\ codecPrev' = codecFile
    /\ codecSaved' = codecConv
    /\ codecPhase' = "saved"
    /\ UNCHANGED <<codecConv, parseVars, escVars, progVars>>

\* get_conversation on the file last written.
CodecLoad ==
    /\ codecPhase = "saved"
    /\ codecConv' = get_conversation(codecFile)
    /\ codecPhase' = "loaded"
    /\ UNCHANGED <<codecFile, codecSaved, codecPrev, parseVars, escVars,
                   progVars>>

NextCodec == CodecSave \/ CodecLoad

SpecCodec == InitCodec /\ [][NextCodec]_vars

\* C1: a conversation whose contents are all single-line, once written and
\* read back, is the conversation that was written.
C1_RoundTrip ==
    (/\ codecPhase = "loaded"
     /\ \A i \in 1..Len(codecSaved) : IsSingleLine(codecSaved[i].content))
        => codecConv = codecSaved

\* C5: a file written by the codec, read back and written again with no
\* message added, has the same text.
C5_StableFile ==
    (codecPhase = "saved" /\ codecPrev # NoFile) => codecFile = codecPrev

(***************************************************************************)
(* Escaping harness: a content over backslash, quote and a letter is saved *)
(* again and again.                                                        *)
(***************************************************************************)

MaxContentLen == 4
MaxPasses == 3

EscAlphabet == {"\\", "'", "a"}

InitEscape ==
    /\ content \in Strs(EscAlphabet, MaxContentLen)
    /\ passes = 0
    /\ CodecIdle
    /\ ProgIdle

\* One save of the content: the transform of update_conversation.
SavePass ==
    /\ passes < MaxPasses
    /\ content' = Sanitize(content)
    /\ passes' = passes + 1
    /\ UNCHANGED <<codecVars, progVars>>

NextEscape == SavePass

SpecEscape == InitEscape /\ [][NextEscape]_vars

\* C2: once the save-time transform has been applied, applying it again
\* yields the same bytes: a saved content is a fixed point of the transform.
C2_EscapingIdempotent == passes >= 1 => Sanitize(content) = content

\* C2 witness: a content holding an escaped quote behind further
\* backslashes has been saved twice.
C2_Witness ==
    /\ passes = 2
    /\ Contains(content, "\\" \o EscapedQuote)

(***************************************************************************)
(* The program: one invocation after the other (main, run, chat).          *)
(***************************************************************************)

MaxRuns == 2
MaxChunks == 2

\* The config file before the first invocation: absent, or as update_config
\* writes it for the entry foo of model m1.
InitConfigs == {NoFile, File("foo m1 \n")}

\* Argument lists of the commands.
EntryArgs == {<<>>, <<"foo">>, <<"foo", "m1">>, <<"foo", "m2", "-v">>,
              <<"list", "m1">>, <<"", "m1">>}
RemoveArgs == {<<>>, <<"foo">>, <<"bar">>, <<"list", "foo">>, <<"bar", "foo">>}
ShowArgs == {<<>>, <<"foo">>}
ChatCommands == {"foo", "FOO", "bar"}
ChatArgs == {<<>>, <<"hi">>, <<"say", "it's">>, <<"-n">>, <<"-n", "hi">>}

\* The buffers the server may deliver.
Chunks == {ContentChunk("ok"), ContentChunk("a\nb"), ContentChunk("<think>"),
           ContentChunk("</think>"), NoContentChunk, MalformedChunk}

\* Every command line that is not help.
CommandLines ==
    {<<"entry">> \o a : a \in EntryArgs}
        \cup {<<"remove">> \o a : a \in RemoveArgs}
        \cup {<<"show">> \o a : a \in ShowArgs}
        \cup {<<"list">>}
        \cup {<<c>> \o a : c \in ChatCommands, a \in ChatArgs}

\* main starts: Query::build, and what the invocation found on disk.
Begin(words) ==
    /\ pc = "shell"
    /\ runs < MaxRuns
    /\ runs' = runs + 1
    /\ query' = QueryBuild(words)
    /\ atStart' = [cfgFile |-> cfgFile, convFiles |-> convFiles]

\* The process never enters chat.
NoChat ==
    /\ conversation' = FreshConversation
    /\ request' = ""
    /\ response' = ""
    /\ is_response' = TRUE
    /\ fragments' = <<>>
    /\ terminal' = <<>>
    /\ prevDecoder' = FreshDecoder
    /\ loaded' = <<>>
    /\ io' = NoIo

\* The process ends: run returns Ok (status 0) or main reports the error
\* and exits with status 1 (main.rs 8-11).
Finish(status, out, err, how) ==
    /\ pc' = "shell"
    /\ exit' = status
    /\ stdout' = out
    /\ stderr' = err
    /\ outcome' = how

\* main.rs 9
ErrorLine(e) == "Error: " \o e

\* run with the command help (lib.rs 45, 68-70): the config is not read.
RunHelp ==
    /\ \E words \in {<<>>, <<"help">>, <<"HELP", "foo">>} : Begin(words)
    /\ store' = <<>>
    /\ NoChat
    /\ Finish(0, help, <<>>, "ok")
    /\ UNCHANGED <<fileVars, escVars, codecVars>>

\* run when parse_config fails (lib.rs 52): the error leaves run at once.
RunLoadFails ==
    /\ \E words \in CommandLines : Begin(words)
    /\ ~LoadConfig(cfgFile).ok
    /\ store' = <<>>
    /\ NoChat
    /\ Finish(1, <<>>, <<ErrorLine(LoadConfig(cfgFile).error)>>, "load_error")
    /\ UNCHANGED <<fileVars, escVars, codecVars>>

\* run with the command entry (lib.rs 56-59).
RunEntry ==
    /\ \E args \in EntryArgs : Begin(<<"entry">> \o args)
    /\ LoadConfig(cfgFile).ok
    /\ NoChat
    /\ LET r == entry(query'.args, LoadConfig(cfgFile).config)
       IN  /\ store' = r.config
           /\ IF r.ok
              THEN /\ cfgFile' = update_config(r.config)
                   /\ Finish(0, r.stdout, <<>>, "ok")
              ELSE /\ cfgFile' = cfgFile
                   /\ Finish(1, <<>>, <<ErrorLine(r.error)>>, "incomplete_entry")
    /\ UNCHANGED <<convFiles, escVars, codecVars>>

\* run with the command remove (lib.rs 60-63).
RunRemove ==
    /\ \E args \in RemoveArgs : Begin(<<"remove">> \o args)
    /\ LoadConfig(cfgFile).ok
    /\ NoChat
    /\ LET r == remove(query'.args, LoadConfig(cfgFile).config)
       IN  /\ store' = r.config
           /\ cfgFile' = update_config(r.config)
           /\ Finish(0, r.stdout, <<>>, "ok")
    /\ UNCHANGED <<convFiles, escVars, codecVars>>

\* run with the command show (lib.rs 64).
RunShow ==
    /\ \E args \in ShowArgs : Begin(<<"show">> \o args)
    /\ LoadConfig(cfgFile).ok
    /\ NoChat
    /\ store' = LoadConfig(cfgFile).config
    /\ Finish(0, show(query'.args, store'), <<>>, "ok")
    /\ UNCHANGED <<fileVars, escVars, codecVars>>

\* run with the command list (lib.rs 65).
RunList ==
    /\ Begin(<<"list">>)
    /\ LoadConfig(cfgFile).ok
    /\ NoChat
    /\ store' = LoadConfig(cfgFile).config
    /\ Finish(0, list(store'), <<>>, "ok")
    /\ UNCHANGED <<fileVars, escVars, codecVars>>

\* config.iter().find(|entry| entry.name == name) (lib.rs 213)
FindEntry(config, name) ==
    LET hits == {i \in 1..Len(config) : config[i].name = name}
    IN  IF hits = {} THEN <<>>
        ELSE <<config[CHOOSE i \in hits : \A j \in hits : i <= j]>>

\* chat that cuts the transcripts before it looks the entry up.
ChatUnknownTruncates ==
    /\ \E c \in ChatCommands, args \in ChatArgs : Begin(<<c>> \o args)
    /\ LoadConfig(cfgFile).ok
    /\ store' = LoadConfig(cfgFile).config
    /\ FindEntry(store', query'.command) = <<>>
    /\ NoChat
    /\ Finish(0, <<"No model with name " \o query'.command
                      \o " found in config file.">>, <<>>, "unknown_entry")
    /\ convFiles' = [m \in ModelPool |->
                        IF Len(query'.args) > 0 /\ query'.args[1] = "-n"
                           /\ convFiles[m].exists
                        THEN File("") ELSE convFiles[m]]
    /\ UNCHANGED <<cfgFile, escVars, codecVars>>

\* chat when no entry has the name of the command (lib.rs 236-238).
ChatUnknown ==
    /\ \E c \in ChatCommands, args \in ChatArgs : Begin(<<c>> \o args)
    /\ LoadConfig(cfgFile).ok
    /\ store' = LoadConfig(cfgFile).config
    /\ FindEntry(store', query'.command) = <<>>
    /\ NoChat
    /\ Finish(0, <<"No model with name " \o query'.command
                      \o " found in config file.">>, <<>>, "unknown_entry")
    /\ UNCHANGED <<fileVars, escVars, codecVars>>

\* remove_conversation (lib.rs 362-376): the file is cut to length 0 when
\* it can be opened for writing and set_len succeeds; otherwise it is left
\* as it is.
remove_conversation(file, works) ==
    IF file.exists /\ works THEN File("") ELSE file

\* The reset flag is the first argument (lib.rs 218-223).
HasResetFlag(args) == Len(args) > 0 /\ args[1] = "-n"

\* query.args[start_index..].join(" ") (lib.rs 217-227)
Prompt(args) ==
    Join(SubSeq(args, IF HasResetFlag(args) THEN 2 ELSE 1, Len(args)), " ")

\* chat up to the call of transfer.perform() (lib.rs 213-228, 244-256): the
\* optional reset, the load, the User message and the request.
ChatStart ==
    /\ \E c \in ChatCommands, args \in ChatArgs : Begin(<<c>> \o args)
    /\ LoadConfig(cfgFile).ok
    /\ store' = LoadConfig(cfgFile).config
    /\ FindEntry(store', query'.command) # <<>>
    /\ LET model == FindEntry(store', query'.command)[1].model
           reset == HasResetFlag(query'.args)
       IN  \E works \in BOOLEAN :
             /\ (works = FALSE) => (reset /\ convFiles[model].exists)
             /\ convFiles' = [convFiles EXCEPT ![model] =
                                 IF reset THEN remove_conversation(@, works)
                                 ELSE @]
             /\ io' = [trunc |-> IF ~reset THEN "none"
                                 ELSE IF works THEN "ok" ELSE "failed",
                       write |-> "none"]
             /\ loaded' = get_conversation(convFiles'[model])
             /\ conversation' =
                    [model |-> model,
                     messages |-> Append(loaded',
                                     Message(RoleUser, Prompt(query'.args)))]
             /\ request' = ConversationToJson(conversation')
    /\ response' = ""
    /\ is_response' = TRUE
    /\ fragments' = <<>>
    /\ terminal' = <<>>
    /\ prevDecoder' = FreshDecoder
    /\ pc' = "transfer"
    /\ exit' = -1
    /\ stdout' = <<>>
    /\ stderr' = <<>>
    /\ outcome' = "running"
    /\ UNCHANGED <<cfgFile, escVars, codecVars>>

\* The write callback is handed a buffer.
Receive(chunk, max) ==
    /\ pc = "transfer"
    /\ Len(fragments) < max
    /\ fragments' = Append(fragments, chunk)
    /\ prevDecoder' = [response |-> response, is_response |-> is_response]

\* The callback on a buffer with message.content (lib.rs 257-299).
ReceiveContent(pool, max) ==
    /\ \E chunk \in pool :
         /\ chunk.kind = "content"
         /\ Receive(chunk, max)
         /\ LET d == OnContent(response, is_response, chunk.content)
            IN  /\ response' = d.response
                /\ is_response' = d.is_response
                /\ terminal' = Append(terminal, d.printed)
    /\ UNCHANGED <<fileVars, pc, runs, query, store, chatVars, stdout, stderr, exit,
                   outcome, atStart, io, escVars, codecVars>>

\* A callback that takes a missing message.content for the JSON null and
\* goes on with its text.
ReceiveNoContentAsNull(pool, max) ==
    /\ \E chunk \in pool :
         /\ chunk.kind = "nocontent"
         /\ Receive(chunk, max)
    /\ LET d == OnContent(response, is_response, "null")
       IN  /\ response' = d.response
           /\ is_response' = d.is_response
           /\ terminal' = Append(terminal, d.printed)
    /\ stderr' = Append(stderr, "No value message.content in response json.")
    /\ UNCHANGED <<fileVars, pc, runs, query, store, chatVars, stdout, exit, outcome,
                   atStart, io, escVars, codecVars>>

\* The callback on a JSON object without message.content (lib.rs 262-268):
\* a diagnostic on standard error, and the transfer goes on.
ReceiveNoContent(pool, max) ==
    /\ \E chunk \in pool :
         /\ chunk.kind = "nocontent"
         /\ Receive(chunk, max)
    /\ terminal' = Append(terminal, <<>>)
    /\ stderr' = Append(stderr, "No value message.content in response json.")
    /\ UNCHANGED <<fileVars, pc, runs, query, store, chatVars, response, is_response,
                   stdout, exit, outcome, atStart, io, escVars, codecVars>>

\* The callback on a buffer that is no JSON document (lib.rs 258-259):
\* unwrap() panics, the transfer ends and the panic ends the process with
\* the status of a Rust panic; neither chat nor main goes on.
ReceiveMalformed(pool, max) ==
    /\ \E chunk \in pool :
         /\ chunk.kind = "malformed"
         /\ Receive(chunk, max)
    /\ pc' = "shell"
    /\ exit' = 101
    /\ stderr' = Append(stderr, "thread 'main' panicked")
    /\ outcome' = "panic"
    /\ UNCHANGED <<fileVars, runs, query, store, chatVars, response, is_response,
                   terminal, stdout, atStart, io, escVars, codecVars>>

\* A failed transfer after which the conversation is written all the same.
TransferFailsAndSaves ==
    /\ pc = "transfer"
    /\ pc' = "shell"
    /\ exit' = 1
    /\ stderr' = Append(stderr, ErrorLine("[7] Couldn't connect to server"))
    /\ outcome' = "network_error"
    /\ convFiles' = [convFiles EXCEPT ![conversation.model] =
                        update_conversation(conversation.messages)]
    /\ UNCHANGED <<cfgFile, runs, query, store, chatVars, decoderVars, stdout,
                   atStart, io, escVars, codecVars>>

\* transfer.perform() fails (lib.rs 300), before the first buffer or after
\* any number of them: send_message and chat return the error.
TransferFails ==
    /\ pc = "transfer"
    /\ pc' = "shell"
    /\ exit' = 1
    /\ stderr' = Append(stderr, ErrorLine("[7] Couldn't connect to server"))
    /\ outcome' = "network_error"
    /\ UNCHANGED <<fileVars, runs, query, store, chatVars, decoderVars, stdout,
                   atStart, io, escVars, codecVars>>

\* What File::create and write_all of update_conversation leave on disk
\* (lib.rs 449-458): the whole text; the old file when create fails; the
\* blocks written before a write_all that fails.
WriteResult(file, messages, how, n) ==
    CASE how = "ok" -> update_conversation(messages)
      [] how = "create_fails" -> file
      [] how = "write_fails" -> update_conversation(SubSeq(messages, 1, n))

\* send_message returns the answer (lib.rs 302); chat appends the Assistant
\* message, calls update_conversation and drops its result (lib.rs 229-234);
\* run returns Ok.
TransferDone ==
    /\ pc = "transfer"
    /\ conversation' = [conversation EXCEPT
                           !.messages = Append(@, Message(RoleAssistant, response))]
    /\ \E how \in {"ok", "create_fails", "write_fails"} :
         \E n \in 0..(Len(conversation'.messages) - 1) :
           /\ (how # "write_fails") => (n = 0)
           /\ convFiles' = [convFiles EXCEPT ![conversation.model] =
                               WriteResult(@, conversation'.messages, how, n)]
           /\ io' = [io EXCEPT !.write = IF how = "ok" THEN "ok" ELSE "failed"]
    /\ pc' = "shell"
    /\ exit' = 0
    /\ outcome' = "ok"
    /\ UNCHANGED <<cfgFile, runs, query, store, request, loaded, decoderVars, stdout,
                   stderr, atStart, escVars, codecVars>>

Init ==
    /\ \E cfg \in InitConfigs : ProgStart(cfg)
    /\ EscIdle
    /\ CodecIdle

Next ==
    \/ RunHelp
    \/ RunLoadFails
    \/ RunEntry
    \/ RunRemove
    \/ RunShow
    \/ RunList
    \/ ChatUnknown
    \/ ChatStart
    \/ ReceiveContent(Chunks, MaxChunks)
    \/ ReceiveNoContent(Chunks, MaxChunks)
    \/ ReceiveMalformed(Chunks, MaxChunks)
    \/ TransferFails
    \/ TransferDone

Spec == Init /\ [][Next]_vars

(***************************************************************************)
(* The commands on many config files: one invocation, the last of MaxRuns, *)
(* that finds a config file written by update_config for some entries, or  *)
(* edited by hand, and possibly the transcript of an earlier exchange; the  *)
(* server sends at most MaxStoreChunks buffers.                             *)
(***************************************************************************)

MaxEntries == 3
MaxStoreChunks == 1

\* The entries of the config files: a name twice, with and without
\* options, and another name.
EntryPool == {Entry("foo", "m1", <<>>), Entry("foo", "m2", <<"-v">>),
              Entry("bar", "m1", <<"-x", "-y">>)}

Stores == UNION {[1..n -> EntryPool] : n \in 0..MaxEntries}

\* Config files with a line parse_config rejects: a line named after a
\* command and a line of one token, alone and after a line that is fine.
BadConfigs == {File("list m1 \n"), File("foo\n"), File("entry\n"),
               File("foo m1 \nlist m1 \n"), File("foo m1 \nbar\n")}

\* A config file edited by hand: blank lines, tabs, no trailing space.
OddConfigs == {File("\n  foo \t m1\n\nbar m2 -v\n")}

StoreConfigs ==
    {NoFile} \cup {update_config(s) : s \in Stores}
        \cup BadConfigs \cup OddConfigs

\* The transcripts: none, or one exchange stored for m1.
StoreTranscripts ==
    {[m \in ModelPool |-> NoFile],
     [m \in ModelPool |->
        IF m = "m1"
        THEN update_conversation(<<Message(RoleUser, "hi"),
                                   Message(RoleAssistant, "ok")>>)
        ELSE NoFile]}

StoreChunks == {ContentChunk("ok")}

InitStore ==
    /\ cfgFile \in StoreConfigs
    /\ convFiles \in StoreTranscripts
    /\ pc = "shell"
    /\ runs = MaxRuns - 1
    /\ query = [command |-> "help", args |-> <<>>]
    /\ store = <<>>
    /\ conversation = FreshConversation
    /\ request = ""
    /\ response = ""
    /\ is_response = TRUE
    /\ fragments = <<>>
    /\ terminal = <<>>
    /\ prevDecoder = FreshDecoder
    /\ stdout = <<>>
    /\ stderr = <<>>
    /\ exit = -1
    /\ outcome = "none"
    /\ atStart = [cfgFile |-> cfgFile, convFiles |-> convFiles]
    /\ loaded = <<>>
    /\ io = NoIo
    /\ EscIdle
    /\ CodecIdle

NextStore ==
    \/ RunHelp
    \/ RunLoadFails
    \/ RunEntry
    \/ RunRemove
    \/ RunShow
    \/ RunList
    \/ ChatUnknown
    \/ ChatStart
    \/ ReceiveContent(StoreChunks, MaxStoreChunks)
    \/ TransferFails
    \/ TransferDone

SpecStore == InitStore /\ [][NextStore]_vars

(***************************************************************************)
(* The streaming decoder alone: one invocation "foo hi" with the entry foo *)
(* of model m1 and no transcript, from the call of transfer.perform() on,  *)
(* with more kinds of buffers.                                             *)
(***************************************************************************)

MaxStreamChunks == 4

\* Message contents delivered by the server: plain text, the two markers,
\* the end marker followed by a line break, text with a line break, with a
\* backslash, with a backslash and a line break, and a start marker that
\* appears once the escaped line break inside it is removed.
StreamContents == {"ok", "<think>", "</think>", "</think>\n", "a\nb",
                   "a\\b", "a\\b\nc", "<thi\nnk>"}

StreamChunks ==
    {ContentChunk(text) : text \in StreamContents}
        \cup {NoContentChunk, MalformedChunk}

InitStream ==
    /\ cfgFile = File("foo m1 \n")
    /\ convFiles = [m \in ModelPool |-> NoFile]
    /\ pc = "transfer"
    /\ runs = 1
    /\ query = QueryBuild(<<"foo", "hi">>)
    /\ store = LoadConfig(cfgFile).config
    /\ conversation = [model |-> "m1",
                       messages |-> <<Message(RoleUser, Prompt(<<"hi">>))>>]
    /\ request = ConversationToJson(conversation)
    /\ response = ""
    /\ is_response = TRUE
    /\ fragments = <<>>
    /\ terminal = <<>>
    /\ prevDecoder = FreshDecoder
    /\ stdout = <<>>
    /\ stderr = <<>>
    /\ exit = -1
    /\ outcome = "running"
    /\ atStart = [cfgFile |-> cfgFile, convFiles |-> convFiles]
    /\ loaded = <<>>
    /\ io = NoIo
    /\ EscIdle
    /\ CodecIdle

NextStream ==
    \/ ReceiveContent(StreamChunks, MaxStreamChunks)
    \/ ReceiveNoContent(StreamChunks, MaxStreamChunks)
    \/ ReceiveMalformed(StreamChunks, MaxStreamChunks)
    \/ TransferFails
    \/ TransferDone

SpecStream == InitStream /\ [][NextStream]_vars

(***************************************************************************)
(* Claims about the streaming decoder.                                     *)
(***************************************************************************)

\* The text of a fragment as the decoder renders it, and the number of line
\* breaks it reconstructs.
FragmentText(f) == SanitizeOutput(Stringified(f.content))
FragmentBreaks(f) == CountNewlines(Stringified(f.content))

RECURSIVE NonThinkingFrom(_, _, _)
\* The concatenation of the non-thinking fragments from the i-th on, each
\* with its line breaks: a fragment is thinking from the one that holds the
\* start marker through the one that holds the end marker.
NonThinkingFrom(frags, i, thinking) ==
    IF i > Len(frags) THEN ""
    ELSE IF frags[i].kind # "content"
         THEN NonThinkingFrom(frags, i + 1, thinking)
         ELSE LET text == FragmentText(frags[i])
                  inside == thinking \/ Contains(text, ThinkStart)
              IN  (IF inside THEN ""
                   ELSE text \o Join(Repeat("\n", FragmentBreaks(frags[i])), ""))
                      \o NonThinkingFrom(frags, i + 1,
                                         inside /\ ~Contains(text, ThinkEnd))

\* The content of the Assistant message chat appended: the value send_message
\* returned.
Returned == conversation.messages[Len(conversation.messages)].content

\* C3: when the transfer succeeds, the value returned by send_message is the
\* concatenation, in arrival order, of the non-thinking fragments; a fragment
\* from the start marker through the end marker contributes neither its
\* content nor its line breaks.
C3_AnswerIsNonThinking ==
    outcome = "ok" => Returned = NonThinkingFrom(fragments, 1, FALSE)

\* What a callback printed, without the style codes.
Shown(printed) == SelectSeq(printed, LAMBDA w : w \notin {AnsiDim, AnsiNormal})

\* C6: for the fragment handled last, c being its content as stringified and
\* k the number of escaped newlines in c: if k >= 1 the callback prints c
\* without those sequences and without any backslash, followed by k line
\* breaks, and, when the decoder is not thinking, appends the same text and k
\* newlines to the answer; if k = 0 it prints c as it is and, when not
\* thinking, appends c as it is.
C6_NewlineReconstruction ==
    LET n == Len(fragments)
    IN  (n > 0 /\ fragments[n].kind = "content") =>
            LET c == Stringified(fragments[n].content)
                k == MatchCount(c, "\\n")
                rest == IF k >= 1 THEN Replace(Replace(c, "\\n", ""), "\\", "")
                        ELSE c
                breaks == Repeat("\n", k)
                answering == prevDecoder.is_response /\ ~Contains(rest, ThinkStart)
            IN  /\ Shown(terminal[n]) = <<rest>> \o breaks
                /\ answering =>
                       response = prevDecoder.response \o rest \o Join(breaks, "")

\* C6 witness: a fragment with a backslash and one line break was handled
\* while answering, after a fragment whose backslash was kept.
C6_Witness ==
    /\ Len(fragments) = 2
    /\ fragments[1] = ContentChunk("a\\b")
    /\ fragments[2] = ContentChunk("a\\b\nc")
    /\ response = "a\\\\b" \o "abc\n"
    /\ terminal[2] = <<"abc", "\n">>

(***************************************************************************)
(* Claims about the session: chat, and the files it leaves.                *)
(***************************************************************************)

\* The transcript file of the model of the entry chat resolved.
Transcript == convFiles[conversation.model]
TranscriptAtStart == atStart.convFiles[conversation.model]

\* Every transcript other than that of the conversation's model is as the
\* invocation found it.
OtherTranscriptsKept ==
    \A m \in ModelPool :
        m # conversation.model => convFiles[m] = atStart.convFiles[m]

\* C4: when the transfer fails with a network error, the invocation ends
\* with status 1, update_conversation has not run, and the transcript holds
\* no message it did not hold before: it is the file the invocation found,
\* or that file cut to length 0 by the reset flag.
C4_NetworkFailurePersistsNothing ==
    outcome = "network_error" =>
        /\ exit = 1
        /\ pc = "shell"
        /\ io.write = "none"
        /\ OtherTranscriptsKept
        /\ \/ Transcript = TranscriptAtStart
           \/ /\ HasResetFlag(query.args)
              /\ TranscriptAtStart.exists
              /\ Transcript = File("")
        /\ Len(conversation.messages) = Len(loaded) + 1

\* C4 witness: an earlier exchange was stored, and the transfer of this
\* invocation fails after a buffer has been accumulated.
C4_Witness ==
    /\ outcome = "network_error"
    /\ response = "ok"
    /\ Len(loaded) = 2
    /\ Transcript = TranscriptAtStart

\* C7: when the entry exists, send_message succeeds and the transcript is
\* written, the transcript decodes to the conversation loaded at the start
\* followed by the User message of the prompt and the Assistant message of
\* the returned text.
C7_SessionAppendsTwoMessages ==
    (outcome = "ok" /\ io.write = "ok") =>
        get_conversation(Transcript) =
            loaded \o <<Message(RoleUser, Prompt(query.args)),
                        Message(RoleAssistant, response)>>

\* C8: when the first argument is the reset flag, the history loaded is
\* empty, the request holds only the new User message, and on success, the
\* transcript being written, it holds exactly that User message and the
\* Assistant reply.
C8_ResetBeforeLoad ==
    (outcome \in {"running", "ok", "network_error", "panic"}
        /\ HasResetFlag(query.args)) =>
        /\ loaded = <<>>
        /\ request = ConversationToJson(
               [model |-> conversation.model,
                messages |-> <<Message(RoleUser, Prompt(query.args))>>])
        /\ (outcome = "ok" /\ io.write = "ok") =>
               get_conversation(Transcript) =
                   <<Message(RoleUser, Prompt(query.args)),
                     Message(RoleAssistant, response)>>

\* An entry as the store requires it: a name that is not empty and no
\* command, and a model.
ValidEntry(e) ==
    /\ e.name # ""
    /\ e.name \notin VALID_COMMANDS
    /\ e.model # ""

\* C9: the config file is accepted by the load of the next invocation, and
\* every entry in it has a name that is not empty and no command, and a
\* model.
C9_ConfigStaysValid ==
    pc = "shell" =>
        /\ LoadConfig(cfgFile).ok
        /\ \A i \in 1..Len(LoadConfig(cfgFile).config) :
               ValidEntry(LoadConfig(cfgFile).config[i])

\* The invocation reported its failure as main reports an error: a line
\* "Error: ..." on standard error and status 1 (main.rs 8-11).
ReportedAsError ==
    /\ exit = 1
    /\ Len(stderr) > 0
    /\ StartsWithAt(stderr[Len(stderr)], "Error: ", 1)

\* C10: when a buffer is no JSON document, the invocation fails and reports
\* it as every fatal error is reported, no later buffer is handled, and no
\* Assistant message is appended or stored.
C10_MalformedIsFatalError ==
    (Len(fragments) > 0 /\ fragments[Len(fragments)].kind = "malformed") =>
        /\ pc = "shell"
        /\ ReportedAsError
        /\ io.write = "none"
        /\ Len(conversation.messages) = Len(loaded) + 1

(***************************************************************************)
(* Claims about buffers without message.content.                           *)
(***************************************************************************)

\* The buffers among frags that carry message.content.
ContentOnly(frags) == SelectSeq(frags, LAMBDA f : f.kind = "content")

RECURSIVE DecodeFrom(_, _, _)
\* The decoder state after the callback has handled the content buffers of
\* frags from the i-th on, one call after the other, starting in state d.
DecodeFrom(frags, i, d) ==
    IF i > Len(frags) THEN d
    ELSE LET r == OnContent(d.response, d.is_response, frags[i].content)
         IN  DecodeFrom(frags, i + 1,
                        [response |-> r.response, is_response |-> r.is_response])

\* The diagnostic of lib.rs 263-266 is on standard error.
HasDiagnostic ==
    \E i \in 1..Len(stderr) :
        StartsWithAt(stderr[i], "No value message.content", 1)

\* C11: a buffer without message.content gives a diagnostic only: nothing is
\* printed, the accumulated answer and the thinking/answer flag are as they
\* were, and the process does not fail on it; the answer (and the flag) are
\* those of the same stream of buffers with every such buffer removed.
C11_MissingContentIsSkipped ==
    LET n == Len(fragments)
    IN  /\ (n > 0 /\ fragments[n].kind = "nocontent") =>
               /\ response = prevDecoder.response
               /\ is_response = prevDecoder.is_response
               /\ terminal[n] = <<>>
               /\ HasDiagnostic
               /\ outcome # "panic"
        /\ (\A i \in 1..n : fragments[i].kind # "malformed") =>
               /\ [response |-> response, is_response |-> is_response]
                      = DecodeFrom(ContentOnly(fragments), 1, FreshDecoder)
               /\ outcome = "ok" => Returned = response

\* C11 witness: a buffer without message.content arrived inside a thinking
\* block, the block was closed, an answer followed and the transfer
\* succeeded.
C11_Witness ==
    /\ outcome = "ok"
    /\ Len(fragments) = 4
    /\ fragments[1] = ContentChunk("<think>")
    /\ fragments[2] = NoContentChunk
    /\ fragments[3] = ContentChunk("</think>")
    /\ fragments[4] = ContentChunk("ok")
    /\ Returned = "ok"

(***************************************************************************)
(* Claims about the commands and the config file.                          *)
(***************************************************************************)

\* The invocation left the config file and every transcript as it found
\* them.
FilesKept ==
    /\ cfgFile = atStart.cfgFile
    /\ convFiles = atStart.convFiles

\* The process never built a request, loaded a transcript, cut one or wrote
\* one, and no buffer was received.
NeverChatted ==
    /\ request = ""
    /\ conversation = FreshConversation
    /\ loaded = <<>>
    /\ io = NoIo
    /\ fragments = <<>>

\* C12: a chat command whose name matches no entry prints that no such model
\* is in the config file and ends with status 0 and nothing on standard
\* error; no request is built, no transcript is cut (reset flag or not),
\* loaded or written, and the config file is as it was.
C12_UnknownEntryHasNoEffect ==
    outcome = "unknown_entry" =>
        /\ pc = "shell"
        /\ exit = 0
        /\ stdout = <<"No model with name " \o query.command
                         \o " found in config file.">>
        /\ stderr = <<>>
        /\ FindEntry(LoadConfig(atStart.cfgFile).config, query.command) = <<>>
        /\ NeverChatted
        /\ FilesKept

\* C12 witness: an exchange was stored for m1 by an earlier invocation, and
\* this one names no entry and gives the reset flag.
C12_Witness ==
    /\ outcome = "unknown_entry"
    /\ query.command = "bar"
    /\ HasResetFlag(query.args)
    /\ convFiles["m1"].exists
    /\ convFiles["m1"].text # ""

\* The entries the command loaded from the config file it found.
StoreAtStart == LoadConfig(atStart.cfgFile).config

\* The indices of the entries of config with the given name.
Named(config, name) == {i \in 1..Len(config) : config[i].name = name}

\* C13: the command entry with at least two arguments, on a store with
\* k >= 1 entries of the name args[1], gives all k of them the model and
\* the options of the arguments, reports k updates, and keeps the number and
\* order of the entries and every entry of another name; with k = 0 it
\* appends the one new entry and keeps the others.  With fewer than two
\* arguments it fails with the incomplete-entry error, and the store and
\* the config file are as they were.
C13_Upsert ==
    (pc = "shell" /\ outcome # "none" /\ query.command = "entry"
        /\ LoadConfig(atStart.cfgFile).ok) =>
        LET args == query.args
            old == StoreAtStart
        IN  IF Len(args) >= 2
            THEN LET new_entry == Entry(args[1], args[2], SubSeq(args, 3, Len(args)))
                     k == Cardinality(Named(old, args[1]))
                 IN  /\ outcome = "ok"
                     /\ exit = 0
                     /\ k >= 1 =>
                            /\ Len(store) = Len(old)
                            /\ \A i \in 1..Len(old) :
                                   store[i] = IF i \in Named(old, args[1])
                                              THEN new_entry ELSE old[i]
                            /\ stdout = <<IF k = 1 THEN "Updated 1 entry."
                                          ELSE "Updated " \o ToString(k)
                                                   \o " entries.">>
                     /\ k = 0 =>
                            /\ store = Append(old, new_entry)
                            /\ stdout = <<"Entry successfully added.">>
            ELSE /\ outcome = "incomplete_entry"
                 /\ exit = 1
                 /\ stderr = <<ErrorLine("Incomplete entry given. Please provide at least a name and a model.")>>
                 /\ store = old
                 /\ cfgFile = atStart.cfgFile

\* C13 witness: two entries named foo around an entry named bar were
\* updated to model m2 with the option -v.
C13_Witness ==
    /\ outcome = "ok"
    /\ query = [command |-> "entry", args |-> <<"foo", "m2", "-v">>]
    /\ StoreAtStart = <<Entry("foo", "m1", <<>>), Entry("bar", "m1", <<"-x", "-y">>),
                        Entry("foo", "m1", <<>>)>>
    /\ store = <<Entry("foo", "m2", <<"-v">>), Entry("bar", "m1", <<"-x", "-y">>),
                 Entry("foo", "m2", <<"-v">>)>>
    /\ stdout = <<"Updated 2 entries.">>

\* The set of the elements of a sequence of names.
NameSet(names) == {names[i] : i \in 1..Len(names)}

\* C14: the command remove leaves the store without exactly the entries
\* whose name is among the arguments, the others as they were and in their
\* order, and reports the number of entries removed; when no argument names
\* an entry of the store (or there is no argument) the store is as it was
\* and the number reported is 0.
C14_Remove ==
    (pc = "shell" /\ outcome # "none" /\ query.command = "remove"
        /\ LoadConfig(atStart.cfgFile).ok) =>
        LET names == NameSet(query.args)
            old == StoreAtStart
            gone == {i \in 1..Len(old) : old[i].name \in names}
        IN  /\ outcome = "ok"
            /\ exit = 0
            /\ store = SelectSeq(old, LAMBDA e : e.name \notin names)
            /\ stdout = <<"Removed " \o ToString(Cardinality(gone))
                             \o " entries from config file.">>
            /\ gone = {} =>
                   /\ store = old
                   /\ stdout = <<"Removed 0 entries from config file.">>

\* C14 witness: two names are given, one of them of no entry; the two
\* entries named foo are removed and the entry named bar between them stays.
C14_Witness ==
    /\ outcome = "ok"
    /\ query = [command |-> "remove", args |-> <<"list", "foo">>]
    /\ StoreAtStart = <<Entry("foo", "m1", <<>>), Entry("bar", "m1", <<"-x", "-y">>),
                        Entry("foo", "m2", <<"-v">>)>>
    /\ store = <<Entry("bar", "m1", <<"-x", "-y">>)>>
    /\ stdout = <<"Removed 2 entries from config file.">>

\* A line of the config file that starts with a command keyword or has
\* exactly one token.
BadLine(line) ==
    LET tokens == SplitWhitespace(line)
    IN  \/ Len(tokens) = 1
        \/ Len(tokens) >= 1 /\ tokens[1] \in VALID_COMMANDS

HasBadLine(file) ==
    file.exists /\ \E i \in 1..Len(Lines(file.text)) : BadLine(Lines(file.text)[i])

\* C15: when the config file found by a command other than help has a line
\* that starts with a command keyword or has exactly one token, the
\* invocation ends with the invalid-entry error and status 1 and has done
\* nothing else: no entry is in memory, nothing is printed on standard
\* output, the config file and the transcripts are as they were, and no
\* transcript was loaded and no request built.
C15_LoadErrorAborts ==
    (outcome # "none" /\ query.command # "help" /\ HasBadLine(atStart.cfgFile)) =>
        /\ outcome = "load_error"
        /\ pc = "shell"
        /\ ReportedAsError
        /\ StartsWithAt(stderr[1], "Error: Invalid entry in config.", 1)
        /\ stdout = <<>>
        /\ store = <<>>
        /\ FilesKept
        /\ NeverChatted

\* C15 witness: the config file has the entry foo and then a line named
\* after a command, an exchange is stored for the model of foo, and the
\* invocation is a chat with foo and the reset flag.
C15_Witness ==
    /\ outcome = "load_error"
    /\ atStart.cfgFile = File("foo m1 \nlist m1 \n")
    /\ query = [command |-> "foo", args |-> <<"-n", "hi">>]
    /\ convFiles["m1"].exists
    /\ convFiles["m1"].text # ""

(***************************************************************************)
(* Claims about the exit status.                                           *)
(***************************************************************************)

\* C16: an invocation that ends with status 0 succeeded or named no entry,
\* and for chat the transcript was cut when the reset flag asked for it and
\* written after the exchange; an invocation in which the truncation or the
\* write of the transcript failed, or any other error occurred, reports it
\* on standard error and ends with a status that is not 0.
C16_ExitStatus ==
    (pc = "shell" /\ outcome # "none") =>
        /\ exit = 0 =>
               /\ outcome \in {"ok", "unknown_entry"}
               /\ io.trunc # "failed"
               /\ io.write # "failed"
        /\ (outcome \notin {"ok", "unknown_entry"}
               \/ io.trunc = "failed" \/ io.write = "failed") =>
               /\ exit # 0
               /\ stderr # <<>>

(***************************************************************************)
(* The transcript decoder line by line: parse_conversation reads a file of *)
(* at most MaxLines lines, each a tag, a text or empty.                    *)
(***************************************************************************)

MaxLines == 6

TagLines == {"<user>", "</user>", "<assistant>", "</assistant>"}
LineAlphabet == TagLines \cup {"x", ""}

\* One turn of the loop of parse_conversation (lib.rs 404-436) on the next
\* line of the file.
ParseLine ==
    /\ Len(parseLines) < MaxLines
    /\ \E line \in LineAlphabet :
         /\ parseLines' = Append(parseLines, line)
         /\ IF line = "<user>"
            THEN parseRole' = RoleUser /\ parseMsgs' = parseMsgs
            ELSE IF line = "</user>"
            THEN parseRole' = RoleNone /\ parseMsgs' = parseMsgs
            ELSE IF line = "<assistant>"
            THEN parseRole' = RoleAssistant /\ parseMsgs' = parseMsgs
            ELSE IF line = "</assistant>"
            THEN parseRole' = RoleNone /\ parseMsgs' = parseMsgs
            ELSE /\ parseRole' = parseRole
                 /\ parseMsgs' = FoldLine(parseMsgs, parseRole, line)
    /\ UNCHANGED <<codecConv, codecFile, codecSaved, codecPrev, codecPhase,
                   escVars, progVars>>

InitParse ==
    /\ CodecIdle
    /\ EscIdle
    /\ ProgIdle

NextParse == ParseLine

SpecParse == InitParse /\ [][NextParse]_vars

\* The step of the decoder on the line it has just read, as the transcript
\* format describes it.
DecoderStep ==
    LET n == Len(parseMsgs)
        line == parseLines'[Len(parseLines')]
    IN  /\ line = "<user>" => (parseRole' = RoleUser /\ parseMsgs' = parseMsgs)
        /\ line = "<assistant>" =>
               (parseRole' = RoleAssistant /\ parseMsgs' = parseMsgs)
        /\ line \in {"</user>", "</assistant>"} =>
               (parseRole' = RoleNone /\ parseMsgs' = parseMsgs)
        /\ line \notin TagLines =>
               /\ parseRole' = parseRole
               /\ parseRole = RoleNone => parseMsgs' = parseMsgs
               /\ (parseRole # RoleNone
                      /\ (n = 0 \/ parseMsgs[n].role # parseRole)) =>
                      parseMsgs' = Append(parseMsgs, Message(parseRole, line))
               /\ (parseRole # RoleNone /\ n > 0
                      /\ parseMsgs[n].role = parseRole) =>
                      /\ Len(parseMsgs') = n
                      /\ parseMsgs'[n] =
                             Message(parseRole, parseMsgs[n].content \o line)
                      /\ \A i \in 1..(n - 1) : parseMsgs'[i] = parseMsgs[i]

\* C17: the decoder starts in state None with no message, and every line
\* it reads is handled as the state machine says: an opening tag enters the
\* state of its role, a closing tag returns to None, a text line in state
\* None changes nothing, a text line in a tagged state starts a message of
\* that role when there is no message or the last one has the other role,
\* and otherwise is concatenated without separator to the last message; no
\* other message changes.
C17_DecoderStateMachine ==
    /\ (parseLines = <<>> => (parseRole = RoleNone /\ parseMsgs = <<>>))
    /\ [][Len(parseLines') = Len(parseLines) + 1 => DecoderStep]_vars

\* C17 witness: two text lines of one block were concatenated, after a
\* message of the other role.
C17_Witness ==
    /\ parseLines = <<"<user>", "x", "<assistant>", "x", "", "x">>
    /\ parseRole = RoleAssistant
    /\ parseMsgs = <<Message(RoleUser, "x"), Message(RoleAssistant, "xx")>>

\* C19: for every sequence of lines, the conversation parse_conversation
\* returns (the messages the loop holds after the last line) has no
\* message of role None and no two consecutive messages of the same role;
\* blocks of the same role that follow each other in the file are one
\* message.
C19_DecodedRolesAlternate ==
    LET conv == parse_conversation(parseLines)
    IN  /\ conv = parseMsgs
        /\ \A i \in 1..Len(conv) : conv[i].role \in {RoleUser, RoleAssistant}
        /\ \A i \in 1..(Len(conv) - 1) : conv[i].role # conv[i + 1].role

\* C19 witness: two User blocks follow each other and are read as one
\* message.
C19_Witness ==
    /\ parseLines = <<"<user>", "x", "</user>", "<user>", "x", "</user>">>
    /\ parse_conversation(parseLines) = <<Message(RoleUser, "xx")>>

(***************************************************************************)
(* Claims about the stored history across invocations.                     *)
(***************************************************************************)

\* A content of one line that is no tag line.
PlainLine(text) == IsSingleLine(text) /\ text \notin TagLines

\* messages are count messages whose roles are User, Assistant, User, ...
Alternating(messages, count) ==
    /\ Len(messages) = count
    /\ \A i \in 1..Len(messages) : messages[i].role = TurnRole(i)

\* What the next invocation loads without the reset flag, and what this one
\* would have loaded.
NextLoad == get_conversation(Transcript)
LoadAtStart == get_conversation(TranscriptAtStart)

\* C18: a chat invocation without the reset flag that finds a transcript of
\* 2k messages with alternating roles (none for an absent or empty
\* transcript) and whose prompt and answer are plain lines leaves, when it
\* succeeds, a transcript from which the next invocation loads 2k + 2
\* messages with alternating roles, and, when it fails in send, the same 2k
\* messages; so n successful invocations from an absent or empty transcript
\* give 2n alternating messages.
C18_AlternationAcrossInvocations ==
    (/\ pc = "shell"
     /\ conversation.model \in ModelPool
     /\ outcome \in {"ok", "network_error", "panic"}
     /\ ~HasResetFlag(query.args)
     /\ PlainLine(Prompt(query.args))
     /\ \E k \in 0..MaxRuns : Alternating(LoadAtStart, 2 * k)) =>
        /\ loaded = LoadAtStart
        /\ (outcome = "ok" /\ PlainLine(response)) =>
               Alternating(NextLoad, Len(LoadAtStart) + 2)
        /\ outcome # "ok" => NextLoad = LoadAtStart

\* C20: when a chat invocation fails in send (the transfer fails, or a
\* buffer is no JSON document), the transcript is the one the invocation
\* found if the reset flag was not given, and is empty (no file, or a file
\* of length 0) if it was given.
C20_FailedExchangeHistory ==
    (conversation.model \in ModelPool
        /\ outcome \in {"network_error", "panic"}) =>
        IF HasResetFlag(query.args)
        THEN ~Transcript.exists \/ Transcript.text = ""
        ELSE Transcript = TranscriptAtStart

=============================================================================
